---- MODULE Spec2Model ----
(***************************************************************************)
(* The homepage feature-list section of the documentation site             *)
(* (src/src/components/HomepageFeatures/index.tsx).                        *)
(*                                                                         *)
(* The module array FeatureList is traversed by HomepageFeatures with      *)
(* Array.prototype.map, which creates one <Feature key={idx} {...props}/>  *)
(* element per record.  The renderer then calls Feature on each element,   *)
(* in order; Feature builds the card and renders the record's Svg          *)
(* component and the theme's Heading.  Neither function has a try/catch    *)
(* or an error boundary, so a throw of a collaborator ends the pass.       *)
(* The tree of a pass becomes the displayed output only when the whole     *)
(* pass has completed.                                                     *)
(***************************************************************************)
EXTENDS Integers, Sequences, FiniteSets, TLC

VARIABLES
    FeatureList,  \* the module-level array (a const binding of a mutable array)
    pc,           \* "idle" | "map" | "render" | "done" | "failed"
    idx,          \* index of the running FeatureList.map
    elements,     \* the array map is building: the <Feature> elements
    ci,           \* number of <Feature> elements rendered so far in this pass
    cards,        \* the cards rendered so far in this pass (work in progress)
    output,       \* the displayed output
    error,        \* the collaborator whose throw ended the pass, or "none"
    broken,       \* the collaborators that throw when rendered, in this pass
    passes,       \* number of passes started
    rendered      \* history: the outputs of the completed passes, in order

vars == <<FeatureList, pc, idx, elements, ci, cards, output, error, broken,
          passes, rendered>>

\* ------------------------------------------------------------------ bounds

MaxLen == 4
MaxPasses == 2

\* ------------------------------------------------------------- the records

Heading == "@theme/Heading"

\* Mutant: the first two records of the list exchanged.
FeatureListInitSwapped ==
    << [title |-> "Test it. Trust it. Ship it.",
        Svg |-> "@site/static/img/undraw_docusaurus_tree.svg",
        description |-> "Ensure every feature works as intended before it goes live. With fast, reliable testing, you can ship code with confidence every time"],
       [title |-> "Pixel-perfect testing made simple.",
        Svg |-> "@site/static/img/undraw_docusaurus_mountain.svg",
        description |-> "Ensure your user interface looks exactly as intended across browsers and devices. With automated visual testing, spotting layout shifts and UI bugs is fast, accurate, and effortless."],
       [title |-> "Your app. Every screen. Zero bugs.",
        Svg |-> "@site/static/img/undraw_docusaurus_react.svg",
        description |-> "Deliver high-quality mobile apps with confidence. Mobile testing ensures smooth performance, consistent UI, and bug-free user experiences across all devices and platforms."] >>

FeatureListInit ==
    << [title |-> "Pixel-perfect testing made simple.",
        Svg |-> "@site/static/img/undraw_docusaurus_mountain.svg",
        description |-> "Ensure your user interface looks exactly as intended across browsers and devices. With automated visual testing, spotting layout shifts and UI bugs is fast, accurate, and effortless."],
       [title |-> "Test it. Trust it. Ship it.",
        Svg |-> "@site/static/img/undraw_docusaurus_tree.svg",
        description |-> "Ensure every feature works as intended before it goes live. With fast, reliable testing, you can ship code with confidence every time"],
       [title |-> "Your app. Every screen. Zero bugs.",
        Svg |-> "@site/static/img/undraw_docusaurus_react.svg",
        description |-> "Deliver high-quality mobile apps with confidence. Mobile testing ensures smooth performance, consistent UI, and bug-free user experiences across all devices and platforms."] >>

\* The values a FeatureItem takes in the bounded lists.
FeatureItem == {FeatureListInit[i] : i \in 1..Len(FeatureListInit)}

\* The collaborators a pass calls: the Svg components and the Heading.
Collaborators == {it.Svg : it \in FeatureItem} \cup {Heading}

\* Every FeatureItem[] of length 0..MaxLen.
FeatureLists == UNION {[1..n -> FeatureItem] : n \in 0..MaxLen}

\* ---------------------------------------------------------------- the tree

\* A node of the tree: an element (or a text) with its children in order.
El(type, className, children) ==
    [type |-> type, className |-> className, key |-> -1, role |-> "",
     as |-> "", text |-> "", children |-> children]

Text(s) == [El("#text", "", <<>>) EXCEPT !.text = s]

NoOutput == El("#none", "", <<>>)

\* Mutant: the text block is put before the icon block.
FeatureHeadingFirst(props) ==
    El("div", "col col--4",
       << El("div", "text--center padding-horiz--md",
             << [El("@theme/Heading", "", << Text(props.title) >>) EXCEPT !.as = "h3"],
                El("p", "", << Text(props.description) >>) >>),
          El("div", "text--center",
             << [El(props.Svg, "styles.featureSvg", <<>>) EXCEPT !.role = "img"] >>) >>)

\* Feature({title, Svg, description}): the card.
Feature(props) ==
    El("div", "col col--4",
       << El("div", "text--center",
             << [El(props.Svg, "styles.featureSvg", <<>>) EXCEPT !.role = "img"] >>),
          El("div", "text--center padding-horiz--md",
             << [El(Heading, "", << Text(props.title) >>) EXCEPT !.as = "h3"],
                El("p", "", << Text(props.description) >>) >>) >>)

\* <Feature key={idx} {...props} />
FeatureElement(props, i) == [type |-> "Feature", key |-> i, props |-> props]

\* The collaborator that throws while Feature(props) is rendered: the Svg is
\* rendered first, the Heading after it; "none" when both work.
Thrower(props, b) ==
    IF props.Svg \in b THEN props.Svg
    ELSE IF Heading \in b THEN Heading
    ELSE "none"

\* What HomepageFeatures returns: section > container > row > children.
HomepageFeatures(children) ==
    El("section", "styles.features",
       << El("div", "container", << El("div", "row", children) >> ) >>)

\* ------------------------------------------------------------------- state

InitWith(list) ==
    /\ FeatureList = list
    /\ pc = "idle"
    /\ idx = 0
    /\ elements = <<>>
    /\ ci = 0
    /\ cards = <<>>
    /\ output = NoOutput
    /\ error = "none"
    /\ broken = {}
    /\ passes = 0
    /\ rendered = <<>>

\* The program as written: the list of lines 12-40.
Init == InitWith(FeatureListInit)

\* The renderer over any list.
InitAnyList == \E list \in FeatureLists : InitWith(list)

Reverse(q) == [i \in 1..Len(q) |-> q[Len(q) + 1 - i]]

\* Mutant: the list is reversed in place before it is mapped
\* (FeatureList.reverse().map(...)).
StartPassReversing ==
    /\ pc \in {"idle", "done", "failed"}
    /\ passes < MaxPasses
    /\ \E b \in SUBSET Collaborators : broken' = b
    /\ FeatureList' = Reverse(FeatureList)
    /\ pc' = "map"
    /\ idx' = 0
    /\ elements' = <<>>
    /\ ci' = 0
    /\ cards' = <<>>
    /\ error' = "none"
    /\ passes' = passes + 1
    /\ UNCHANGED <<output, rendered>>

\* A pass starts: HomepageFeatures is called and FeatureList.map begins.
StartPass ==
    /\ pc \in {"idle", "done", "failed"}
    /\ passes < MaxPasses
    /\ \E b \in SUBSET Collaborators : broken' = b
    /\ pc' = "map"
    /\ idx' = 0
    /\ elements' = <<>>
    /\ ci' = 0
    /\ cards' = <<>>
    /\ error' = "none"
    /\ passes' = passes + 1
    /\ UNCHANGED <<FeatureList, output, rendered>>

\* Mutant: the traversal advances by two, so every second record is skipped.
MapStepSkipping ==
    /\ pc = "map"
    /\ idx < Len(FeatureList)
    /\ elements' = Append(elements, FeatureElement(FeatureList[idx + 1], idx))
    /\ idx' = idx + 2
    /\ UNCHANGED <<FeatureList, pc, ci, cards, output, error, broken, passes,
                   rendered>>

\* Mutant: each element is put at the front of the result (unshift for push).
MapStepPrepending ==
    /\ pc = "map"
    /\ idx < Len(FeatureList)
    /\ elements' = <<FeatureElement(FeatureList[idx + 1], idx)>> \o elements
    /\ idx' = idx + 1
    /\ UNCHANGED <<FeatureList, pc, ci, cards, output, error, broken, passes,
                   rendered>>

\* Mutant: the traversal consumes the list (FeatureList.shift() per record).
MapStepShifting ==
    /\ pc = "map"
    /\ idx < Len(FeatureList)
    /\ elements' = Append(elements, FeatureElement(Head(FeatureList), Len(elements)))
    /\ FeatureList' = Tail(FeatureList)
    /\ UNCHANGED <<idx, pc, ci, cards, output, error, broken, passes, rendered>>

\* One call of map's callback: (props, idx) => <Feature key={idx} {...props} />
MapStep ==
    /\ pc = "map"
    /\ idx < Len(FeatureList)
    /\ elements' = Append(elements, FeatureElement(FeatureList[idx + 1], idx))
    /\ idx' = idx + 1
    /\ UNCHANGED <<FeatureList, pc, ci, cards, output, error, broken, passes,
                   rendered>>

\* Mutant: the elements are combined with a reduce that has no initial
\* value, which throws a TypeError on the empty array.
MapReturnReducing ==
    /\ pc = "map"
    /\ ~(idx < Len(FeatureList))
    /\ IF elements = <<>>
       THEN pc' = "failed" /\ error' = "TypeError" /\ output' = NoOutput
       ELSE pc' = "render" /\ UNCHANGED <<error, output>>
    /\ UNCHANGED <<FeatureList, idx, elements, ci, cards, broken, passes,
                   rendered>>

\* map has visited every index: HomepageFeatures returns its tree.
MapReturn ==
    /\ pc = "map"
    /\ ~(idx < Len(FeatureList))
    /\ pc' = "render"
    /\ UNCHANGED <<FeatureList, idx, elements, ci, cards, output, error,
                   broken, passes, rendered>>

\* Mutant: each card is displayed as soon as it is rendered.
RenderFeatureStreaming ==
    /\ pc = "render"
    /\ ci < Len(elements)
    /\ LET e == elements[ci + 1]
           t == Thrower(e.props, broken)
       IN IF t = "none"
          THEN /\ cards' = Append(cards, [Feature(e.props) EXCEPT !.key = e.key])
               /\ ci' = ci + 1
               /\ output' = HomepageFeatures(cards')
               /\ UNCHANGED <<pc, error>>
          ELSE /\ pc' = "failed"
               /\ error' = t
               /\ UNCHANGED <<ci, cards, output>>
    /\ UNCHANGED <<FeatureList, idx, elements, broken, passes, rendered>>

\* Mutant: a throw is caught around each card, and the card is left out.
RenderFeatureCatching ==
    /\ pc = "render"
    /\ ci < Len(elements)
    /\ LET e == elements[ci + 1]
           t == Thrower(e.props, broken)
       IN IF t = "none"
          THEN cards' = Append(cards, [Feature(e.props) EXCEPT !.key = e.key])
          ELSE UNCHANGED cards
    /\ ci' = ci + 1
    /\ UNCHANGED <<FeatureList, pc, idx, elements, output, error, broken,
                   passes, rendered>>

\* The next <Feature> element is rendered: Feature(props), then its Svg and
\* its Heading.  A throw is not caught: the pass ends and nothing is shown.
RenderFeature ==
    /\ pc = "render"
    /\ ci < Len(elements)
    /\ LET e == elements[ci + 1]
           t == Thrower(e.props, broken)
       IN IF t = "none"
          THEN /\ cards' = Append(cards, [Feature(e.props) EXCEPT !.key = e.key])
               /\ ci' = ci + 1
               /\ UNCHANGED <<pc, output, error>>
          ELSE /\ pc' = "failed"
               /\ error' = t
               /\ output' = NoOutput
               /\ UNCHANGED <<ci, cards>>
    /\ UNCHANGED <<FeatureList, idx, elements, broken, passes, rendered>>

\* Every element is rendered: the tree of the pass is displayed.
Commit ==
    /\ pc = "render"
    /\ ~(ci < Len(elements))
    /\ pc' = "done"
    /\ output' = HomepageFeatures(cards)
    /\ rendered' = Append(rendered, output')
    /\ UNCHANGED <<FeatureList, idx, elements, ci, cards, error, broken, passes>>

PassStep == MapStep \/ MapReturn \/ RenderFeature \/ Commit

Next == StartPass \/ MapStep \/ MapReturn \/ RenderFeature \/ Commit

Spec == Init /\ [][Next]_vars

AnyListSpec == InitAnyList /\ [][Next]_vars

\* Rendering is synchronous: a pass that has started runs to its end.
FairSpec == InitAnyList /\ [][Next]_vars /\ WF_vars(PassStep)

\* --------------------------------------------------------------- accessors

\* The row container of a displayed tree, and the cards in it.
RowOf(o) == o.children[1].children[1]
Cards(o) == IF o = NoOutput THEN <<>> ELSE RowOf(o).children

IconBlock(c) == c.children[1]
TextBlock(c) == c.children[2]
CardIcon(c) == IconBlock(c).children[1].type
CardTitle(c) == TextBlock(c).children[1].children[1].text
CardDescription(c) == TextBlock(c).children[2].children[1].text

\* The collaborators of this pass that the list needs all work.
Working == \A i \in 1..Len(FeatureList) : Thrower(FeatureList[i], broken) = "none"

\* ------------------------------------------------------------------ claims

\* C1: a pass over a list of N records makes exactly N Feature elements and,
\* when it completes, displays exactly N cards in the row container, the
\* i-th one made from index i: no index is skipped and none is used twice.
C1_OneCardPerRecord ==
    /\ pc \in {"render", "done", "failed"} =>
          /\ Len(elements) = Len(FeatureList)
          /\ \A i \in 1..Len(elements) : elements[i].key = i - 1
    /\ pc = "done" =>
          /\ Len(Cards(output)) = Len(FeatureList)
          /\ \A i \in 1..Len(Cards(output)) : Cards(output)[i].key = i - 1

C1_Witness ==
    /\ pc = "done"
    /\ Len(FeatureList) = 4
    /\ FeatureList[1] = FeatureList[4]
    /\ Len(Cards(output)) = 4

\* C2: the i-th displayed card carries the title, the icon and the
\* description of the i-th record of the list.
C2_OrderPreserved ==
    pc = "done" =>
        \A i \in 1..Len(FeatureList) :
            /\ i <= Len(Cards(output))
            /\ CardTitle(Cards(output)[i]) = FeatureList[i].title
            /\ CardIcon(Cards(output)[i]) = FeatureList[i].Svg
            /\ CardDescription(Cards(output)[i]) = FeatureList[i].description

C2_Witness ==
    /\ pc = "done"
    /\ Len(FeatureList) = 3
    /\ FeatureList[1] # FeatureList[2]
    /\ FeatureList[2] # FeatureList[3]
    /\ CardTitle(Cards(output)[3]) = FeatureList[3].title

\* C3: a pass over the empty list never fails, whatever the collaborators
\* do, and displays the section, container and row with no card in the row.
C3_EmptyListRenders ==
    FeatureList = <<>> =>
        /\ pc # "failed"
        /\ error = "none"
        /\ pc = "done" =>
              /\ output.type = "section"
              /\ Len(output.children) = 1
              /\ output.children[1].className = "container"
              /\ Len(output.children[1].children) = 1
              /\ RowOf(output).className = "row"
              /\ RowOf(output).children = <<>>

C3_Witness ==
    /\ FeatureList = <<>>
    /\ pc = "done"
    /\ broken = Collaborators
    /\ output.type = "section"
    /\ RowOf(output).children = <<>>

\* C4: all completed passes over the list produced the same output, and
\* what is displayed is that output or nothing.
C4_RerenderIdempotent ==
    /\ \A i, j \in 1..Len(rendered) : rendered[i] = rendered[j]
    /\ output # NoOutput => \E i \in 1..Len(rendered) : output = rendered[i]

C4_Witness ==
    /\ Len(rendered) = 2
    /\ Len(FeatureList) = 3
    /\ FeatureList[1] # FeatureList[3]
    /\ passes = 2
    /\ output = rendered[1]

\* C5: the list of the source renders as exactly three cards with the three
\* headings of the source in their order, each card with its record's title
\* in the heading and its record's description in the paragraph.
C5_ThreeCardsOfTheSource ==
    pc = "done" =>
        /\ Len(Cards(output)) = 3
        /\ CardTitle(Cards(output)[1]) = "Pixel-perfect testing made simple."
        /\ CardTitle(Cards(output)[2]) = "Test it. Trust it. Ship it."
        /\ CardTitle(Cards(output)[3]) = "Your app. Every screen. Zero bugs."
        /\ \A i \in 1..3 :
              LET c == Cards(output)[i]
              IN /\ TextBlock(c).children[1].type = Heading
                 /\ TextBlock(c).children[1].children[1].text = FeatureList[i].title
                 /\ TextBlock(c).children[2].type = "p"
                 /\ TextBlock(c).children[2].children[1].text
                       = FeatureList[i].description

C5_Witness ==
    /\ pc = "done"
    /\ Len(FeatureList) = 3
    /\ Len(Cards(output)) = 3
    /\ CardTitle(Cards(output)[1]) = "Pixel-perfect testing made simple."

\* C6: no step of a pass changes the feature list: its length, its order
\* and every field of every record stay as they were.
C6_ListNeverChanges == [][FeatureList' = FeatureList]_vars

C6_Witness ==
    /\ passes = 2
    /\ pc = "done"
    /\ Len(rendered) = 2
    /\ Len(FeatureList) >= 2

\* C7: every displayed card holds, in this order, the icon block with the
\* record's icon, then the text block with the heading and after it the
\* paragraph; both blocks are center-aligned.
CenterAligned(className) ==
    className \in {"text--center", "text--center padding-horiz--md"}

C7_CardStructure ==
    \A i \in 1..Len(Cards(output)) :
        LET c == Cards(output)[i]
        IN /\ Len(c.children) = 2
           /\ CenterAligned(IconBlock(c).className)
           /\ Len(IconBlock(c).children) = 1
           /\ IconBlock(c).children[1].type \in Collaborators \ {Heading}
           /\ IconBlock(c).children[1].role = "img"
           /\ CenterAligned(TextBlock(c).className)
           /\ Len(TextBlock(c).children) = 2
           /\ TextBlock(c).children[1].type = Heading
           /\ TextBlock(c).children[1].as = "h3"
           /\ TextBlock(c).children[2].type = "p"

C7_Witness ==
    /\ pc = "done"
    /\ Len(Cards(output)) = 3
    /\ \A i, j \in 1..3 : i # j => FeatureList[i] # FeatureList[j]

\* C8: what is displayed is nothing or all N cards, never some of them; a
\* pass whose collaborators work never fails, and it completes.
AtomicOutput ==
    \/ output = NoOutput
    \/ Len(Cards(output)) = Len(FeatureList)

C8_PassIsAtomic ==
    /\ [](AtomicOutput /\ (pc = "failed" => ~Working))
    /\ ((pc = "map" /\ Working) ~> (pc = "done"))

C8_Witness ==
    /\ pc = "render"
    /\ Working
    /\ 0 < ci
    /\ ci < Len(elements)
    /\ Len(cards) = ci

\* C9: a throw of a collaborator ends the pass with that throw and with
\* nothing displayed; a pass completes only if no card of the list has a
\* throwing collaborator, so no card is dropped or replaced.
FirstFailing ==
    CHOOSE i \in 1..Len(FeatureList) :
        /\ Thrower(FeatureList[i], broken) # "none"
        /\ \A j \in 1..(i - 1) : Thrower(FeatureList[j], broken) = "none"

C9_FailureNotSuppressed ==
    /\ pc = "failed" =>
          /\ ~Working
          /\ output = NoOutput
          /\ error \in broken
          /\ error = IF FeatureList[FirstFailing].Svg \in broken
                     THEN FeatureList[FirstFailing].Svg
                     ELSE Heading
    /\ pc = "done" => Working /\ error = "none"

C9_Witness ==
    /\ pc = "failed"
    /\ passes = 2
    /\ Len(rendered) = 1
    /\ ci = 1
    /\ error = FeatureList[2].Svg
    /\ output = NoOutput

====
